---- MODULE Spec2Model ----
(***************************************************************************)
(* Model of src/Voxa.py: the MusicApp window, its three fetch operations   *)
(* (fetch_albums, get_pixmap, update_playing_album), the 5 s QTimer that   *)
(* polls the current playback, the two button handlers and the            *)
(* VoiceRecognitionThread.                                                 *)
(*                                                                         *)
(* The remote service (spotipy) and the HTTP download (requests) are the   *)
(* environment: every call draws its response from the sets below.         *)
(* voice_detected is declared and connected to process_command, but        *)
(* VoiceRecognitionThread.run never emits it, so process_command has no    *)
(* step in this model; the songs table is created and never read or        *)
(* written, so it carries no state here either.                            *)
(***************************************************************************)
EXTENDS Naturals, Sequences, FiniteSets, TLC

VARIABLES pc, albums, album_labels, timer, voice_thread, stdout, log, lastCall

vars == <<pc, albums, album_labels, timer, voice_thread, stdout, log, lastCall>>

----------------------------------------------------------------------------
(* Bounds *)

MaxHistory == 2      \* items the remote returns for "recently played"
MaxOut == 3          \* lines kept of standard output
MaxLog == 3          \* records kept of voxa.log

(* limit=5 of current_user_recently_played *)
RecentLimit == 5

Urls == {"u1", "u2"}
Songs == {"Thriller"}
Artists == {"Michael Jackson", "Other"}
Files == {"bg.png"}

----------------------------------------------------------------------------
(* Python exceptions that the calls of this program can raise *)

NoExc == "none"

\* subclasses of requests.exceptions.RequestException
RequestExceptions == {"ConnectionError", "Timeout", "HTTPError"}

\* what spotipy raises besides the transport errors of requests
SpotifyExceptions == {"SpotifyException"}

\* raised by indexing a response that lacks the expected shape
LookupExceptions == {"KeyError", "IndexError", "TypeError"}

Exceptions == RequestExceptions \cup SpotifyExceptions \cup LookupExceptions

\* "except <clause>" catches exc
Catches(clause, exc) ==
    CASE clause = "Exception" -> exc \in Exceptions
      [] clause = "RequestException" -> exc \in RequestExceptions
      [] OTHER -> exc = clause

----------------------------------------------------------------------------
(* Responses of the environment *)

\* images of one recently played item: the list may be empty
ImageLists == {<<>>} \cup {<<u>> : u \in Urls}

ItemSeqs == UNION {[1..n -> ImageLists] : n \in 0..MaxHistory}

\* sp.current_user_recently_played(limit=5): raises, or returns items
RecentResponses ==
    {[exc |-> e, items |-> <<>>] : e \in SpotifyExceptions \cup {"ConnectionError"}}
    \cup {[exc |-> NoExc, items |-> s] : s \in {t \in ItemSeqs : Len(t) <= RecentLimit}}

\* requests.get(url): raises, or returns a status and a body
HttpResponses ==
    {[exc |-> e, status |-> 0, image |-> FALSE] : e \in {"ConnectionError", "Timeout"}}
    \cup {[exc |-> NoExc, status |-> s, image |-> b] : s \in {200, 404, 500}, b \in BOOLEAN}

\* sp.current_playback(): raises, returns None, or returns a dict whose
\* 'item' is None or a track with a (possibly empty) list of artists
PlaybackResponses ==
    {[exc |-> e, body |-> "None", name |-> "", artists |-> <<>>] :
        e \in SpotifyExceptions \cup {"ConnectionError"}}
    \cup {[exc |-> NoExc, body |-> b, name |-> "", artists |-> <<>>] :
        b \in {"None", "item_None"}}
    \cup {[exc |-> NoExc, body |-> "track", name |-> s, artists |-> a] :
        s \in Songs, a \in {<<>>} \cup {<<x>> : x \in Artists}}

----------------------------------------------------------------------------
(* The three fetch operations, as functions of the environment's response. *)
(* Each yields what it returns (ret), the exception that leaves it (exc),  *)
(* and what it appends to standard output (out) and to the log (logged).   *)

NullPixmap == [null |-> TRUE, url |-> ""]

Result(ret, exc, out, logged) ==
    [ret |-> ret, exc |-> exc, out |-> out, logged |-> logged]

\* exception raised by the body of fetch_albums' try block
fetch_albums_raised(resp) ==
    IF resp.exc # NoExc THEN resp.exc
    ELSE IF \E i \in 1..Len(resp.items) : resp.items[i] = <<>> THEN "IndexError"
    ELSE NoExc

fetch_albums(resp) ==
    LET e == fetch_albums_raised(resp) IN
    IF e = NoExc
    THEN Result([i \in 1..Len(resp.items) |-> resp.items[i][1]], NoExc, <<>>, <<>>)
    ELSE IF Catches("Exception", e)
    THEN Result(<<>>, NoExc, <<>>, <<<<"Error fetching albums", e>>>>)
    ELSE Result(<<>>, e, <<>>, <<>>)

\* exception raised by the body of get_pixmap's try block
get_pixmap_raised(resp) ==
    IF resp.exc # NoExc THEN resp.exc
    ELSE IF resp.status >= 400 THEN "HTTPError"
    ELSE NoExc

get_pixmap_narrow(url, resp) ==
    LET e == get_pixmap_raised(resp) IN
    IF e = NoExc
    THEN Result([null |-> ~resp.image, url |-> IF resp.image THEN url ELSE ""],
                NoExc, <<>>, <<>>)
    ELSE IF Catches("HTTPError", e)
    THEN Result(NullPixmap, NoExc, <<>>, <<<<"Error fetching album cover", e>>>>)
    ELSE Result(NullPixmap, e, <<>>, <<>>)

get_pixmap(url, resp) ==
    LET e == get_pixmap_raised(resp) IN
    IF e = NoExc
    THEN Result([null |-> ~resp.image, url |-> IF resp.image THEN url ELSE ""],
                NoExc, <<>>, <<>>)
    ELSE IF Catches("RequestException", e)
    THEN Result(NullPixmap, NoExc, <<>>, <<<<"Error fetching album cover", e>>>>)
    ELSE Result(NullPixmap, e, <<>>, <<>>)

\* exception raised by the body of update_playing_album's try block
update_playing_album_raised(resp) ==
    IF resp.exc # NoExc THEN resp.exc
    ELSE IF resp.body = "item_None" THEN "TypeError"
    ELSE IF resp.body = "track" /\ resp.artists = <<>> THEN "IndexError"
    ELSE NoExc

update_playing_album(resp) ==
    LET e == update_playing_album_raised(resp) IN
    IF e = NoExc
    THEN IF resp.body = "track"
         THEN Result("None", NoExc,
                     <<<<"Currently playing", resp.name, resp.artists[1]>>>>, <<>>)
         ELSE Result("None", NoExc, <<>>, <<>>)
    ELSE IF Catches("Exception", e)
    THEN Result("None", NoExc, <<>>, <<<<"Error updating playing album", e>>>>)
    ELSE Result("None", e, <<>>, <<>>)

----------------------------------------------------------------------------
(* State machine *)

NoCall == [fn |-> "none", failed |-> FALSE, res |-> Result("None", NoExc, <<>>, <<>>)]

Init ==
    /\ pc = "fetch_albums"
    /\ albums = <<>>
    /\ album_labels = <<>>
    /\ timer = FALSE
    /\ voice_thread = "unstarted"
    /\ stdout = <<>>
    /\ log = <<>>
    /\ lastCall = NoCall

\* room for what a call prints and logs
Fits(r) == Len(stdout) + Len(r.out) <= MaxOut /\ Len(log) + Len(r.logged) <= MaxLog

\* MusicApp.__init__, line 73: self.albums = self.fetch_albums()
InitFetchAlbums ==
    /\ pc = "fetch_albums"
    /\ \E resp \in RecentResponses :
         LET r == fetch_albums(resp) IN
         /\ Fits(r)
         /\ albums' = r.ret
         /\ log' = log \o r.logged
         /\ stdout' = stdout \o r.out
         /\ lastCall' = [fn |-> "fetch_albums",
                         failed |-> fetch_albums_raised(resp) # NoExc, res |-> r]
         /\ pc' = IF r.exc # NoExc THEN "crashed" ELSE "album_loop"
    /\ UNCHANGED <<album_labels, timer, voice_thread>>

\* MusicApp.__init__, lines 76-83: one iteration of the loop over self.albums
InitAlbumCover ==
    /\ pc = "album_loop"
    /\ Len(album_labels) < Len(albums)
    /\ \E resp \in HttpResponses :
         LET url == albums[Len(album_labels) + 1]
             r == get_pixmap(url, resp) IN
         /\ Fits(r)
         /\ log' = log \o r.logged
         /\ stdout' = stdout \o r.out
         /\ lastCall' = [fn |-> "get_pixmap",
                         failed |-> get_pixmap_raised(resp) # NoExc, res |-> r]
         /\ IF r.exc # NoExc
            THEN pc' = "crashed" /\ UNCHANGED album_labels
            ELSE pc' = pc /\ album_labels' = Append(album_labels, r.ret)
    /\ UNCHANGED <<albums, timer, voice_thread>>

\* MusicApp.__init__, lines 85-136, then window.show() and app.exec_()
InitRest ==
    /\ pc = "album_loop"
    /\ Len(album_labels) = Len(albums)
    /\ timer' = TRUE
    /\ voice_thread' = "started"
    /\ pc' = "exec"
    /\ UNCHANGED <<albums, album_labels, stdout, log, lastCall>>

\* VoiceRecognitionThread.run: prints one line and returns
VoiceRun ==
    /\ voice_thread = "started"
    /\ Len(stdout) < MaxOut
    /\ stdout' = Append(stdout, <<"Voice recognition running in background", "", "">>)
    /\ voice_thread' = "finished"
    /\ UNCHANGED <<pc, albums, album_labels, timer, log, lastCall>>

\* timer.timeout -> update_playing_album, every 5000 ms while the loop runs
TimerTick ==
    /\ pc = "exec"
    /\ timer
    /\ \E resp \in PlaybackResponses :
         LET r == update_playing_album(resp) IN
         /\ Fits(r)
         /\ log' = log \o r.logged
         /\ stdout' = stdout \o r.out
         /\ lastCall' = [fn |-> "update_playing_album",
                         failed |-> update_playing_album_raised(resp) # NoExc, res |-> r]
         /\ pc' = IF r.exc # NoExc THEN "crashed" ELSE pc
    /\ UNCHANGED <<albums, album_labels, timer, voice_thread>>

\* settings_button.clicked -> open_settings
OpenSettings ==
    /\ pc = "exec"
    /\ Len(stdout) < MaxOut
    /\ stdout' = Append(stdout, <<"Opening settings...", "", "">>)
    /\ UNCHANGED <<pc, albums, album_labels, timer, voice_thread, log, lastCall>>

\* custom_bg_button.clicked -> import_background; the dialog may be cancelled
ImportBackground ==
    /\ pc = "exec"
    /\ \E file_name \in Files \cup {""} :
         IF file_name # ""
         THEN /\ Len(stdout) < MaxOut
              /\ stdout' = Append(stdout, <<"Background image set to", file_name, "">>)
         ELSE UNCHANGED stdout
    /\ UNCHANGED <<pc, albums, album_labels, timer, voice_thread, log, lastCall>>

Next ==
    \/ InitFetchAlbums
    \/ InitAlbumCover
    \/ InitRest
    \/ VoiceRun
    \/ TimerTick
    \/ OpenSettings
    \/ ImportBackground

Spec == Init /\ [][Next]_vars

----------------------------------------------------------------------------
(* Properties *)

IsAnnouncement(line) == line[1] = "Currently playing"
IsVoiceCommand(line) == line[1] = "Recognized command"

\* C5: every announcement of what is playing was preceded by a voice command
\* (the line process_command prints); a poll of the current playback or a
\* button of the window alone never produces one.
AnnouncementOnlyAfterVoiceCommand ==
    \A i \in 1..Len(stdout) :
        IsAnnouncement(stdout[i]) => \E j \in 1..(i - 1) : IsVoiceCommand(stdout[j])

\* C10: no failure of the remote service or of the image download leaves a
\* fetch operation: the window is never brought down, a failed call raises
\* nothing and logs one record, fetch_albums then returns the empty list and
\* get_pixmap the empty pixmap.
FetchFailuresAreContained ==
    /\ pc # "crashed"
    /\ lastCall.failed =>
        /\ lastCall.res.exc = NoExc
        /\ Len(lastCall.res.logged) = 1
        /\ Len(log) >= 1
        /\ log[Len(log)] = lastCall.res.logged[1]
        /\ lastCall.res.out = <<>>
        /\ lastCall.fn = "fetch_albums" => lastCall.res.ret = <<>> /\ albums = <<>>
        /\ lastCall.fn = "get_pixmap" => lastCall.res.ret = NullPixmap

\* C10 witness: the window is running after a cover download failed at the
\* transport level and a later poll of the playback failed too.
FetchFailuresWitness ==
    /\ pc = "exec"
    /\ lastCall.fn = "update_playing_album"
    /\ lastCall.failed
    /\ \E i \in 1..Len(log) :
         log[i][1] = "Error fetching album cover" /\ log[i][2] = "ConnectionError"
    /\ \E i \in 1..Len(album_labels) : album_labels[i] = NullPixmap

====
